---- MODULE Spec2Model ----
(***************************************************************************)
(* The natural-language-to-SQL translator of the expense tracker           *)
(* (generate_sql_from_question, src/api.py) and the SQL safety validator.  *)
(*                                                                         *)
(* Text is a sequence of one-character strings, so that substring search,  *)
(* case conversion, trimming and the digit scan are computed on the        *)
(* characters, as Python computes them.                                    *)
(***************************************************************************)
EXTENDS Integers, Sequences, FiniteSets, TLC

\* At most MaxWords phrases make up a question, MaxParts parts a statement.
MaxWords == 2
MaxParts == 3

----------------------------------------------------------------------------
\* Python values and string operations

\* Python's None; no text equals it, its one element is not a character.
None == <<"None">>

\* Python truthiness of an Optional[str]: None and "" are both false.
truthy(s) == s # None /\ s # <<>>
LowerOf ==
  [A |-> "a", B |-> "b", C |-> "c", D |-> "d", E |-> "e", F |-> "f", G |-> "g", H |-> "h", I |-> "i", J |-> "j", K |-> "k", L |-> "l", M |-> "m", N |-> "n", O |-> "o", P |-> "p", Q |-> "q", R |-> "r", S |-> "s", T |-> "t", U |-> "u", V |-> "v", W |-> "w", X |-> "x", Y |-> "y", Z |-> "z"]
UpperOf ==
  [a |-> "A", b |-> "B", c |-> "C", d |-> "D", e |-> "E", f |-> "F", g |-> "G", h |-> "H", i |-> "I", j |-> "J", k |-> "K", l |-> "L", m |-> "M", n |-> "N", o |-> "O", p |-> "P", q |-> "Q", r |-> "R", s |-> "S", t |-> "T", u |-> "U", v |-> "V", w |-> "W", x |-> "X", y |-> "Y", z |-> "Z"]

\* str.lower()
lower(s) == [i \in 1..Len(s) |-> IF s[i] \in DOMAIN LowerOf THEN LowerOf[s[i]] ELSE s[i]]

\* str.upper()
upper(s) == [i \in 1..Len(s) |-> IF s[i] \in DOMAIN UpperOf THEN UpperOf[s[i]] ELSE s[i]]

\* word in text: substring search
contains(text, word) ==
  \/ word = <<>>
  \/ \E i \in 1..(Len(text) - Len(word) + 1) :
       /\ text[i] = word[1]
       /\ \A j \in 2..Len(word) : text[i + j - 1] = word[j]

\* any(word in text for word in words)
any(words, text) == \E n \in 1..Len(words) : contains(text, words[n])

\* str.startswith
startswith(text, prefix) ==
  /\ Len(prefix) <= Len(text)
  /\ \A j \in 1..Len(prefix) : text[j] = prefix[j]

Whitespace == {" ", "\n", "\t", "\r"}

\* str.strip(): drop leading and trailing whitespace
strip(s) ==
  IF \A i \in 1..Len(s) : s[i] \in Whitespace THEN <<>>
  ELSE SubSeq(s,
         CHOOSE i \in 1..Len(s) :
           s[i] \notin Whitespace /\ \A k \in 1..(i - 1) : s[k] \in Whitespace,
         CHOOSE j \in 1..Len(s) :
           s[j] \notin Whitespace /\ \A k \in (j + 1)..Len(s) : s[k] \in Whitespace)

Digits == {"0", "1", "2", "3", "4", "5", "6", "7", "8", "9"}

\* re.search(r"\$?(\d+)", text): group(1) of the leftmost match, the first
\* maximal run of digits of the text; None when the text has no digit.
re_search_amount(text) ==
  LET at == {i \in 1..Len(text) : text[i] \in Digits}
  IN  IF at = {} THEN None
      ELSE LET first == CHOOSE i \in at : \A k \in at : i <= k
               last  == CHOOSE j \in first..Len(text) :
                          /\ \A k \in first..j : text[k] \in Digits
                          /\ (j = Len(text) \/ text[j + 1] \notin Digits)
           IN  SubSeq(text, first, last)

RECURSIVE concat(_)
concat(parts) == IF parts = <<>> THEN <<>> ELSE Head(parts) \o concat(Tail(parts))

\* A triple-quoted f-string whose lines all carry the same indentation: it
\* opens with a line break, and the closing quotes stand on a line of their own.
fstring(indent, lines) ==
  concat([i \in 1..Len(lines) |-> indent \o lines[i]]) \o indent

----------------------------------------------------------------------------
\* The literals of generate_sql_from_question

indent12 == <<"\n", " ", " ", " ", " ", " ", " ", " ", " ", " ", " ", " ", " ">>
indent8 == <<"\n", " ", " ", " ", " ", " ", " ", " ", " ">>
total_words ==
  << <<"t", "o", "t", "a", "l">>,
     <<"h", "o", "w", " ", "m", "u", "c", "h">>,
     <<"s", "u", "m">>,
     <<"s", "p", "e", "n", "t">> >>
by_category_words ==
  << <<"c", "a", "t", "e", "g", "o", "r", "y">>,
     <<"c", "a", "t", "e", "g", "o", "r", "i", "e", "s">>,
     <<"b", "y", " ", "c", "a", "t", "e", "g", "o", "r", "y">>,
     <<"p", "e", "r", " ", "c", "a", "t", "e", "g", "o", "r", "y">> >>
categories ==
  << <<"f", "o", "o", "d">>,
     <<"t", "r", "a", "v", "e", "l">>,
     <<"s", "h", "o", "p", "p", "i", "n", "g">>,
     <<"b", "i", "l", "l", "s">>,
     <<"o", "t", "h", "e", "r">> >>
list_words ==
  << <<"l", "i", "s", "t">>,
     <<"s", "h", "o", "w">>,
     <<"d", "i", "s", "p", "l", "a", "y">>,
     <<"a", "l", "l">>,
     <<"e", "x", "p", "e", "n", "s", "e", "s">> >>
amount_words ==
  << <<"o", "v", "e", "r">>,
     <<"a", "b", "o", "v", "e">>,
     <<"m", "o", "r", "e", " ", "t", "h", "a", "n">>,
     <<"g", "r", "e", "a", "t", "e", "r", " ", "t", "h", "a", "n">> >>
biggest_words ==
  << <<"b", "i", "g", "g", "e", "s", "t">>,
     <<"h", "i", "g", "h", "e", "s", "t">>,
     <<"m", "a", "x", "i", "m", "u", "m">>,
     <<"m", "o", "s", "t">>,
     <<"l", "a", "r", "g", "e", "s", "t">> >>
smallest_words ==
  << <<"s", "m", "a", "l", "l", "e", "s", "t">>,
     <<"l", "o", "w", "e", "s", "t">>,
     <<"m", "i", "n", "i", "m", "u", "m">>,
     <<"l", "e", "a", "s", "t">> >>
average_words ==
  << <<"a", "v", "e", "r", "a", "g", "e">>,
     <<"a", "v", "g">>,
     <<"m", "e", "a", "n">> >>
count_words ==
  << <<"c", "o", "u", "n", "t">>,
     <<"n", "u", "m", "b", "e", "r">>,
     <<"h", "o", "w", " ", "m", "a", "n", "y">> >>
category_word == <<"c", "a", "t", "e", "g", "o", "r", "y">>
select_category_sum == <<"S", "E", "L", "E", "C", "T", " ", "c", "a", "t", "e", "g", "o", "r", "y", ",", " ", "S", "U", "M", "(", "a", "m", "o", "u", "n", "t", ")", " ", "a", "s", " ", "t", "o", "t", "a", "l", "_", "a", "m", "o", "u", "n", "t", ",", " ", "C", "O", "U", "N", "T", "(", "*", ")", " ", "a", "s", " ", "e", "x", "p", "e", "n", "s", "e", "_", "c", "o", "u", "n", "t">>
from_expenses == <<"F", "R", "O", "M", " ", "e", "x", "p", "e", "n", "s", "e", "s">>
group_by_category == <<"G", "R", "O", "U", "P", " ", "B", "Y", " ", "c", "a", "t", "e", "g", "o", "r", "y">>
order_by_total_desc == <<"O", "R", "D", "E", "R", " ", "B", "Y", " ", "t", "o", "t", "a", "l", "_", "a", "m", "o", "u", "n", "t", " ", "D", "E", "S", "C">>
order_by_total_asc == <<"O", "R", "D", "E", "R", " ", "B", "Y", " ", "t", "o", "t", "a", "l", "_", "a", "m", "o", "u", "n", "t", " ", "A", "S", "C">>
select_sum == <<"S", "E", "L", "E", "C", "T", " ", "S", "U", "M", "(", "a", "m", "o", "u", "n", "t", ")", " ", "a", "s", " ", "t", "o", "t", "a", "l", "_", "a", "m", "o", "u", "n", "t", ",", " ", "C", "O", "U", "N", "T", "(", "*", ")", " ", "a", "s", " ", "t", "o", "t", "a", "l", "_", "e", "x", "p", "e", "n", "s", "e", "s">>
select_columns == <<"S", "E", "L", "E", "C", "T", " ", "i", "d", ",", " ", "d", "a", "t", "e", ",", " ", "a", "m", "o", "u", "n", "t", ",", " ", "c", "a", "t", "e", "g", "o", "r", "y", ",", " ", "s", "u", "b", "c", "a", "t", "e", "g", "o", "r", "y", ",", " ", "n", "o", "t", "e">>
order_by_date_amount == <<"O", "R", "D", "E", "R", " ", "B", "Y", " ", "d", "a", "t", "e", " ", "D", "E", "S", "C", ",", " ", "a", "m", "o", "u", "n", "t", " ", "D", "E", "S", "C">>
order_by_amount_desc == <<"O", "R", "D", "E", "R", " ", "B", "Y", " ", "a", "m", "o", "u", "n", "t", " ", "D", "E", "S", "C">>
order_by_amount_asc == <<"O", "R", "D", "E", "R", " ", "B", "Y", " ", "a", "m", "o", "u", "n", "t", " ", "A", "S", "C">>
order_by_date_desc == <<"O", "R", "D", "E", "R", " ", "B", "Y", " ", "d", "a", "t", "e", " ", "D", "E", "S", "C">>
select_category_avg == <<"S", "E", "L", "E", "C", "T", " ", "c", "a", "t", "e", "g", "o", "r", "y", ",", " ", "A", "V", "G", "(", "a", "m", "o", "u", "n", "t", ")", " ", "a", "s", " ", "a", "v", "e", "r", "a", "g", "e", "_", "a", "m", "o", "u", "n", "t", ",", " ", "C", "O", "U", "N", "T", "(", "*", ")", " ", "a", "s", " ", "e", "x", "p", "e", "n", "s", "e", "_", "c", "o", "u", "n", "t">>
order_by_average_desc == <<"O", "R", "D", "E", "R", " ", "B", "Y", " ", "a", "v", "e", "r", "a", "g", "e", "_", "a", "m", "o", "u", "n", "t", " ", "D", "E", "S", "C">>
select_avg == <<"S", "E", "L", "E", "C", "T", " ", "A", "V", "G", "(", "a", "m", "o", "u", "n", "t", ")", " ", "a", "s", " ", "a", "v", "e", "r", "a", "g", "e", "_", "a", "m", "o", "u", "n", "t", ",", " ", "C", "O", "U", "N", "T", "(", "*", ")", " ", "a", "s", " ", "t", "o", "t", "a", "l", "_", "e", "x", "p", "e", "n", "s", "e", "s">>
select_category_count == <<"S", "E", "L", "E", "C", "T", " ", "c", "a", "t", "e", "g", "o", "r", "y", ",", " ", "C", "O", "U", "N", "T", "(", "*", ")", " ", "a", "s", " ", "e", "x", "p", "e", "n", "s", "e", "_", "c", "o", "u", "n", "t", ",", " ", "S", "U", "M", "(", "a", "m", "o", "u", "n", "t", ")", " ", "a", "s", " ", "t", "o", "t", "a", "l", "_", "a", "m", "o", "u", "n", "t">>
order_by_count_desc == <<"O", "R", "D", "E", "R", " ", "B", "Y", " ", "e", "x", "p", "e", "n", "s", "e", "_", "c", "o", "u", "n", "t", " ", "D", "E", "S", "C">>
select_count == <<"S", "E", "L", "E", "C", "T", " ", "C", "O", "U", "N", "T", "(", "*", ")", " ", "a", "s", " ", "t", "o", "t", "a", "l", "_", "c", "o", "u", "n", "t">>
limit_100 == <<"L", "I", "M", "I", "T", " ", "1", "0", "0">>
limit_1 == <<"L", "I", "M", "I", "T", " ", "1">>
limit_10 == <<"L", "I", "M", "I", "T", " ", "1", "0">>
limit_50 == <<"L", "I", "M", "I", "T", " ", "5", "0">>
where_between == <<"W", "H", "E", "R", "E", " ", "d", "a", "t", "e", " ", "B", "E", "T", "W", "E", "E", "N", " ", "'">>
quote_and_quote == <<"'", " ", "A", "N", "D", " ", "'">>
quote == <<"'">>
where_date_ge == <<"W", "H", "E", "R", "E", " ", "d", "a", "t", "e", " ", ">", "=", " ", "'">>
where_date_le == <<"W", "H", "E", "R", "E", " ", "d", "a", "t", "e", " ", "<", "=", " ", "'">>
category_ilike == <<"c", "a", "t", "e", "g", "o", "r", "y", " ", "I", "L", "I", "K", "E", " ", "'", "%">>
percent_quote == <<"%", "'">>
and_ == <<" ", "A", "N", "D", " ">>
where_ == <<"W", "H", "E", "R", "E", " ">>
amount_gt == <<"a", "m", "o", "u", "n", "t", " ", ">", " ">>

----------------------------------------------------------------------------
\* generate_sql_from_question

\* The twelve query shapes, each named by the interpretation returned with it.
TotalByCategory == "Showing total spending grouped by category"
TotalOverall == "Showing total spending amount and number of expenses"
ListExpenses == "Showing list of expenses matching your criteria"
BiggestCategory == "Showing the category with highest spending"
BiggestExpenses == "Showing the highest individual expenses"
SmallestCategory == "Showing the category with lowest spending"
SmallestExpenses == "Showing the lowest individual expenses"
AverageByCategory == "Showing average spending per category"
AverageOverall == "Showing overall average expense amount"
CountByCategory == "Showing count of expenses per category"
CountOverall == "Showing total count of expenses"
RecentDefault == "Showing recent expenses (default view)"

\* The date predicate, with its WHERE; "" when neither bound is given.
date_filter(start_date, end_date) ==
  IF truthy(start_date) /\ truthy(end_date)
    THEN where_between \o start_date \o quote_and_quote \o end_date \o quote
  ELSE IF truthy(start_date) THEN where_date_ge \o start_date \o quote
  ELSE IF truthy(end_date) THEN where_date_le \o end_date \o quote
  ELSE <<>>

\* Mutant: the loop stops at the category mentioned first in the question.
first_category_in_text(question_lower) ==
  LET hits == {n \in 1..Len(categories) : contains(question_lower, categories[n])}
      at(n) == CHOOSE i \in 1..Len(question_lower) :
                 /\ contains(SubSeq(question_lower, 1, i), categories[n])
                 /\ ~contains(SubSeq(question_lower, 1, i - 1), categories[n])
  IN  IF hits = {} THEN None
      ELSE categories[CHOOSE n \in hits : \A k \in hits : at(n) <= at(k)]

\* for cat in [...]: if cat in question_lower: ... break
\* The category the loop stops at, None when it runs to its end.
first_category(question_lower) ==
  LET hits == {n \in 1..Len(categories) : contains(question_lower, categories[n])}
  IN  IF hits = {} THEN None
      ELSE categories[CHOOSE n \in hits : \A k \in hits : n <= k]

cat_condition(cat) == category_ilike \o cat \o percent_quote

amount_condition(amount) == amount_gt \o amount

\* Pattern 1, overall: the category filter carries the date filter with it.
total_category_filter(question_lower, date_flt) ==
  LET cat == first_category(question_lower)
  IN  IF cat = None THEN <<>>
      ELSE IF date_flt # <<>> THEN date_flt \o and_ \o cat_condition(cat)
      ELSE where_ \o cat_condition(cat)

final_filter(question_lower, date_flt) ==
  LET category_filter == total_category_filter(question_lower, date_flt)
  IN  IF category_filter # <<>> THEN category_filter ELSE date_flt

\* Pattern 2: the category filter is appended to the date filter.
list_category_filter(question_lower, date_flt) ==
  LET cat == first_category(question_lower)
  IN  IF cat = None THEN <<>>
      ELSE IF date_flt # <<>> THEN and_ \o cat_condition(cat)
      ELSE where_ \o cat_condition(cat)

\* Mutant: the amount filter looks at the date filter alone.
list_amount_filter_date_only(question_lower, date_flt, category_filter) ==
  IF any(amount_words, question_lower)
    THEN LET amount_match == re_search_amount(question_lower)
         IN  IF amount_match # None
               THEN IF date_flt # <<>>
                      THEN and_ \o amount_condition(amount_match)
                      ELSE where_ \o amount_condition(amount_match)
               ELSE <<>>
    ELSE <<>>

\* Mutant: the match is used without the test that there is one.
list_amount_filter_unchecked(question_lower, date_flt, category_filter) ==
  IF any(amount_words, question_lower)
    THEN LET amount_match == re_search_amount(question_lower)
         IN  IF date_flt # <<>> \/ category_filter # <<>>
               THEN and_ \o amount_condition(amount_match)
               ELSE where_ \o amount_condition(amount_match)
    ELSE <<>>

list_amount_filter(question_lower, date_flt, category_filter) ==
  IF any(amount_words, question_lower)
    THEN LET amount_match == re_search_amount(question_lower)
         IN  IF amount_match # None
               THEN IF date_flt # <<>> \/ category_filter # <<>>
                      THEN and_ \o amount_condition(amount_match)
                      ELSE where_ \o amount_condition(amount_match)
               ELSE <<>>
    ELSE <<>>

\* Pattern 1: total spending, by category or overall
pattern_total(question_lower, date_flt) ==
  IF any(by_category_words, question_lower)
    THEN [sql |-> fstring(indent12, <<select_category_sum, from_expenses, date_flt,
                                      group_by_category, order_by_total_desc>>),
          interpretation |-> TotalByCategory]
    ELSE [sql |-> fstring(indent12, <<select_sum, from_expenses,
                                      final_filter(question_lower, date_flt)>>),
          interpretation |-> TotalOverall]

\* Pattern 2: list of expenses
pattern_list(question_lower, date_flt) ==
  LET category_filter == list_category_filter(question_lower, date_flt)
      amount_filter == list_amount_filter(question_lower, date_flt, category_filter)
  IN  [sql |-> fstring(indent8, <<select_columns, from_expenses,
                                  date_flt \o category_filter \o amount_filter,
                                  order_by_date_amount, limit_100>>),
       interpretation |-> ListExpenses]

\* Mutant: the row caps of the two biggest statements are exchanged.
pattern_biggest_caps_exchanged(question_lower, date_flt) ==
  IF contains(question_lower, category_word)
    THEN [sql |-> fstring(indent12, <<select_category_sum, from_expenses, date_flt,
                                      group_by_category, order_by_total_desc, limit_10>>),
          interpretation |-> BiggestCategory]
    ELSE [sql |-> fstring(indent12, <<select_columns, from_expenses, date_flt,
                                      order_by_amount_desc, limit_1>>),
          interpretation |-> BiggestExpenses]

\* Pattern 3: biggest
pattern_biggest(question_lower, date_flt) ==
  IF contains(question_lower, category_word)
    THEN [sql |-> fstring(indent12, <<select_category_sum, from_expenses, date_flt,
                                      group_by_category, order_by_total_desc, limit_1>>),
          interpretation |-> BiggestCategory]
    ELSE [sql |-> fstring(indent12, <<select_columns, from_expenses, date_flt,
                                      order_by_amount_desc, limit_10>>),
          interpretation |-> BiggestExpenses]

\* Pattern 4: smallest
pattern_smallest(question_lower, date_flt) ==
  IF contains(question_lower, category_word)
    THEN [sql |-> fstring(indent12, <<select_category_sum, from_expenses, date_flt,
                                      group_by_category, order_by_total_asc, limit_1>>),
          interpretation |-> SmallestCategory]
    ELSE [sql |-> fstring(indent12, <<select_columns, from_expenses, date_flt,
                                      order_by_amount_asc, limit_10>>),
          interpretation |-> SmallestExpenses]

\* Mutant: the branches of the average rule are exchanged.
pattern_average_swapped(question_lower, date_flt) ==
  IF ~contains(question_lower, category_word)
    THEN [sql |-> fstring(indent12, <<select_category_avg, from_expenses, date_flt,
                                      group_by_category, order_by_average_desc>>),
          interpretation |-> AverageByCategory]
    ELSE [sql |-> fstring(indent12, <<select_avg, from_expenses, date_flt>>),
          interpretation |-> AverageOverall]

\* Pattern 5: average
pattern_average(question_lower, date_flt) ==
  IF contains(question_lower, category_word)
    THEN [sql |-> fstring(indent12, <<select_category_avg, from_expenses, date_flt,
                                      group_by_category, order_by_average_desc>>),
          interpretation |-> AverageByCategory]
    ELSE [sql |-> fstring(indent12, <<select_avg, from_expenses, date_flt>>),
          interpretation |-> AverageOverall]

\* Mutant: the count statements carry a row cap.
pattern_count_capped(question_lower, date_flt) ==
  IF contains(question_lower, category_word)
    THEN [sql |-> fstring(indent12, <<select_category_count, from_expenses, date_flt,
                                      group_by_category, order_by_count_desc, limit_10>>),
          interpretation |-> CountByCategory]
    ELSE [sql |-> fstring(indent12, <<select_count, from_expenses, date_flt, limit_1>>),
          interpretation |-> CountOverall]

\* Mutant: the overall count is filtered by category as the overall total is.
pattern_count_by_mentioned_category(question_lower, date_flt) ==
  IF contains(question_lower, category_word)
    THEN [sql |-> fstring(indent12, <<select_category_count, from_expenses, date_flt,
                                      group_by_category, order_by_count_desc>>),
          interpretation |-> CountByCategory]
    ELSE [sql |-> fstring(indent12, <<select_count, from_expenses,
                                      final_filter(question_lower, date_flt)>>),
          interpretation |-> CountOverall]

\* Pattern 6: count
pattern_count(question_lower, date_flt) ==
  IF contains(question_lower, category_word)
    THEN [sql |-> fstring(indent12, <<select_category_count, from_expenses, date_flt,
                                      group_by_category, order_by_count_desc>>),
          interpretation |-> CountByCategory]
    ELSE [sql |-> fstring(indent12, <<select_count, from_expenses, date_flt>>),
          interpretation |-> CountOverall]

\* Default: recent expenses
pattern_default(date_flt) ==
  [sql |-> fstring(indent8, <<select_columns, from_expenses, date_flt,
                              order_by_date_desc, limit_50>>),
   interpretation |-> RecentDefault]

\* Mutant: the total rule is tried last instead of first.
select_pattern_total_last(question_lower, date_flt) ==
  IF any(list_words, question_lower) THEN pattern_list(question_lower, date_flt)
  ELSE IF any(biggest_words, question_lower) THEN pattern_biggest(question_lower, date_flt)
  ELSE IF any(smallest_words, question_lower) THEN pattern_smallest(question_lower, date_flt)
  ELSE IF any(average_words, question_lower) THEN pattern_average(question_lower, date_flt)
  ELSE IF any(count_words, question_lower) THEN pattern_count(question_lower, date_flt)
  ELSE IF any(total_words, question_lower) THEN pattern_total(question_lower, date_flt)
  ELSE pattern_default(date_flt)

\* Mutant: the chain has no default and ends in the list rule.
select_pattern_no_default(question_lower, date_flt) ==
  IF any(total_words, question_lower) THEN pattern_total(question_lower, date_flt)
  ELSE IF any(biggest_words, question_lower) THEN pattern_biggest(question_lower, date_flt)
  ELSE IF any(smallest_words, question_lower) THEN pattern_smallest(question_lower, date_flt)
  ELSE IF any(average_words, question_lower) THEN pattern_average(question_lower, date_flt)
  ELSE IF any(count_words, question_lower) THEN pattern_count(question_lower, date_flt)
  ELSE pattern_list(question_lower, date_flt)

\* The if/elif chain over the lower-cased question.
select_pattern(question_lower, date_flt) ==
  IF any(total_words, question_lower) THEN pattern_total(question_lower, date_flt)
  ELSE IF any(list_words, question_lower) THEN pattern_list(question_lower, date_flt)
  ELSE IF any(biggest_words, question_lower) THEN pattern_biggest(question_lower, date_flt)
  ELSE IF any(smallest_words, question_lower) THEN pattern_smallest(question_lower, date_flt)
  ELSE IF any(average_words, question_lower) THEN pattern_average(question_lower, date_flt)
  ELSE IF any(count_words, question_lower) THEN pattern_count(question_lower, date_flt)
  ELSE pattern_default(date_flt)

\* Returns (sql_query, interpretation): return sql.strip(), interpretation
generate_sql_from_question(q, start, end) ==
  LET r == select_pattern(lower(q), date_filter(start, end))
  IN  [sql |-> strip(r.sql), interpretation |-> r.interpretation]

----------------------------------------------------------------------------
\* The safety validator (spec section 4.3), on a caller-supplied statement

select_keyword == <<"S", "E", "L", "E", "C", "T">>
limit_keyword == <<"L", "I", "M", "I", "T">>
blocked_keywords ==
  << <<"D", "R", "O", "P">>,
     <<"D", "E", "L", "E", "T", "E">>,
     <<"I", "N", "S", "E", "R", "T">>,
     <<"U", "P", "D", "A", "T", "E">>,
     <<"A", "L", "T", "E", "R">>,
     <<"T", "R", "U", "N", "C", "A", "T", "E">>,
     <<"C", "R", "E", "A", "T", "E">> >>

\* Mutant: the limit check is made before the blocked-keyword check.
validate_limit_first(sql) ==
  LET sql_upper == upper(strip(sql))
  IN  IF ~startswith(sql_upper, select_keyword) THEN "not-a-read-statement"
      ELSE IF ~contains(sql_upper, limit_keyword) THEN "missing-limit-clause"
      ELSE IF any(blocked_keywords, sql_upper) THEN "contains-blocked-keyword"
      ELSE "pass"

validate(sql) ==
  LET sql_upper == upper(strip(sql))
  IN  IF ~startswith(sql_upper, select_keyword) THEN "not-a-read-statement"
      ELSE IF any(blocked_keywords, sql_upper) THEN "contains-blocked-keyword"
      ELSE IF ~contains(sql_upper, limit_keyword) THEN "missing-limit-clause"
      ELSE "pass"

----------------------------------------------------------------------------
\* Requests: the inputs the model draws from

\* The phrases a question is made of, joined by single spaces.
Phrases ==
  << <<"t", "o", "t", "a", "l">>,
     <<"c", "a", "t", "e", "g", "o", "r", "y">>,
     <<"c", "a", "t", "e", "g", "o", "r", "i", "e", "s">>,
     <<"e", "x", "p", "e", "n", "s", "e", "s", " ", "b", "y", " ", "c", "a", "t", "e", "g", "o", "r", "y">>,
     <<"S", "h", "o", "w">>,
     <<"e", "x", "p", "e", "n", "s", "e", "s", " ", "o", "v", "e", "r">>,
     <<"o", "v", "e", "r", " ", "1", "0", "0">>,
     <<"$", "7", " ", "e", "x", "p", "e", "n", "s", "e", "s">>,
     <<"b", "i", "g", "g", "e", "s", "t">>,
     <<"l", "o", "w", "e", "s", "t">>,
     <<"s", "m", "a", "l", "l", "e", "s", "t">>,
     <<"a", "v", "e", "r", "a", "g", "e">>,
     <<"c", "o", "u", "n", "t">>,
     <<"f", "o", "o", "d">>,
     <<"t", "r", "a", "v", "e", "l", " ", "e", "x", "p", "e", "n", "s", "e", "s">> >>

date_from == <<"2", "0", "2", "5", "-", "1", "1", "-", "0", "1">>
date_to == <<"2", "0", "2", "5", "-", "1", "1", "-", "3", "0">>
SqlParts ==
  << <<"S", "E", "L", "E", "C", "T", " ", "*">>,
     <<"s", "e", "l", "e", "c", "t", " ", "1", ";">>,
     <<"D", "R", "O", "P", " ", "T", "A", "B", "L", "E", " ", "x">>,
     <<"U", "P", "D", "A", "T", "E", " ", "e", "x", "p", "e", "n", "s", "e", "s", " ", "S", "E", "T", " ", "a", "m", "o", "u", "n", "t", "=", "1">>,
     <<"F", "R", "O", "M", " ", "e", "x", "p", "e", "n", "s", "e", "s">>,
     <<"L", "I", "M", "I", "T", " ", "1", "0">>,
     <<"c", "r", "e", "a", "t", "e", "d", "_", "a", "t">>,
     <<>> >>

\* An absent bound is None or "": both are false to the code.
StartDates == {None, date_from}
EndDates == {<<>>, date_to}

----------------------------------------------------------------------------
\* The state machine

VARIABLES
  pc,              \* "request", "translated", "responded", "validated"
  question,        \* the question of the /query request
  words,           \* number of phrases of the question
  start_date,      \* dates of the /query request
  end_date,
  sql_query,       \* result of generate_sql_from_question
  interpretation,
  db_outcome,      \* how executing sql_query ended in the datastore
  http_status,     \* status of the /query response, 0 before there is one
  results,         \* rows of the /query response
  statement,       \* the caller-supplied statement of the direct-SQL request
  parts,           \* number of parts of the statement
  verdict          \* result of validate

vars == <<pc, question, words, start_date, end_date, sql_query, interpretation,
          db_outcome, http_status, results, statement, parts, verdict>>

Init ==
  /\ pc = "request"
  /\ question = <<>>
  /\ words = 0
  /\ start_date = None
  /\ end_date = None
  /\ sql_query = None
  /\ interpretation = ""
  /\ db_outcome = "none"
  /\ http_status = 0
  /\ results = "none"
  /\ statement = <<>>
  /\ parts = 0
  /\ verdict = ""

\* The caller writes one more phrase of the question.
AddPhrase(p) ==
  /\ pc = "request"
  /\ words < MaxWords
  /\ question' = IF words = 0 THEN p ELSE question \o <<" ">> \o p
  /\ words' = words + 1
  /\ UNCHANGED <<pc, start_date, end_date, sql_query, interpretation,
                 db_outcome, http_status, results, statement, parts, verdict>>

\* natural_language_query calls generate_sql_from_question on the request.
Translate(start, end) ==
  /\ pc = "request"
  /\ LET r == generate_sql_from_question(question, start, end)
     IN  /\ sql_query' = r.sql
         /\ interpretation' = r.interpretation
  /\ start_date' = start
  /\ end_date' = end
  /\ pc' = "translated"
  /\ UNCHANGED <<question, words, db_outcome, http_status, results,
                 statement, parts, verdict>>

Next ==
  \/ \E n \in 1..Len(Phrases) : AddPhrase(Phrases[n])
  \/ \E start \in StartDates, end \in EndDates : Translate(start, end)

Spec == Init /\ [][Next]_vars

\* How the datastore answers cur.execute(sql_query): with rows, with a
\* psycopg2.Error, or the handler fails on an exception of another class.
DbOutcomes == {"rows", "psycopg2.Error", "Exception"}

\* The except clauses of natural_language_query
status_of(outcome) ==
  IF outcome = "psycopg2.Error" THEN 400
  ELSE IF outcome = "Exception" THEN 500
  ELSE 200

\* natural_language_query executes the statement and answers: the rows in a
\* NaturalQueryResponse, or one HTTPException and no rows.
Execute(outcome) ==
  /\ pc = "translated"
  /\ db_outcome' = outcome
  /\ http_status' = status_of(outcome)
  /\ results' = IF outcome = "rows" THEN "rows" ELSE "none"
  /\ pc' = "responded"
  /\ UNCHANGED <<question, words, start_date, end_date, sql_query, interpretation,
                 statement, parts, verdict>>

NextQuery ==
  \/ \E n \in 1..Len(Phrases) : AddPhrase(Phrases[n])
  \/ \E start \in StartDates, end \in EndDates : Translate(start, end)
  \/ \E outcome \in DbOutcomes : Execute(outcome)

SpecQuery == Init /\ [][NextQuery]_vars

\* The caller writes one more part of the statement.
AddPart(p) ==
  /\ pc = "request"
  /\ parts < MaxParts
  /\ statement' = IF parts = 0 THEN p ELSE statement \o <<" ">> \o p
  /\ parts' = parts + 1
  /\ UNCHANGED <<pc, question, words, start_date, end_date, sql_query,
                 interpretation, db_outcome, http_status, results, verdict>>

\* The direct-SQL endpoint validates the statement.
Validate ==
  /\ pc = "request"
  /\ verdict' = validate(statement)
  /\ pc' = "validated"
  /\ UNCHANGED <<question, words, start_date, end_date, sql_query,
                 interpretation, db_outcome, http_status, results, statement, parts>>

NextValidate ==
  \/ \E n \in 1..Len(SqlParts) : AddPart(SqlParts[n])
  \/ Validate

SpecValidate == Init /\ [][NextValidate]_vars

----------------------------------------------------------------------------
\* Vocabulary of the properties

ql == lower(question)

translated == pc = "translated"

\* Number of places at which word occurs in text
count(text, word) ==
  Cardinality({i \in 1..(Len(text) - Len(word) + 1) :
                 \A j \in 1..Len(word) : text[i + j - 1] = word[j]})

CappedShapes ==
  {ListExpenses, BiggestCategory, BiggestExpenses, SmallestCategory,
   SmallestExpenses, RecentDefault}

AggregateShapes ==
  {TotalByCategory, TotalOverall, AverageByCategory, AverageOverall,
   CountByCategory, CountOverall}

----------------------------------------------------------------------------
\* C1 (as claimed): the statement returned for any question and date range
\* passes the safety validator: first token SELECT, no blocked keyword, and
\* a LIMIT clause, for each of the twelve shapes.
C1_PassesValidator == translated => validate(sql_query) = "pass"

\* C1 (amended): for every question and every range of YYYY-MM-DD dates the
\* statement starts with the token SELECT and contains no blocked keyword; it
\* carries a LIMIT clause, and so passes the validator, exactly in the six
\* capped shapes; in the six aggregate shapes it has no LIMIT and the
\* validator rejects it as missing-limit-clause.
C1_ReadOnlyLimitOnlyWhenCapped ==
  translated =>
    /\ startswith(sql_query, select_keyword \o <<" ">>)
    /\ ~any(blocked_keywords, upper(sql_query))
    /\ interpretation \in CappedShapes \cup AggregateShapes
    /\ contains(upper(sql_query), limit_keyword) <=> interpretation \in CappedShapes
    /\ validate(sql_query) =
         IF interpretation \in CappedShapes THEN "pass" ELSE "missing-limit-clause"

C1_Witness ==
  /\ translated
  /\ interpretation = CountByCategory
  /\ truthy(start_date) /\ truthy(end_date)
  /\ validate(sql_query) = "missing-limit-clause"

----------------------------------------------------------------------------
\* C2: classification is first-match-wins over the rule order total, list,
\* biggest, smallest, average, count, default: the shape is one of the first
\* rule a keyword of which the question contains; under rule 1 it is
\* TotalByCategory when the question contains "category" or "categories",
\* TotalOverall otherwise, whatever later rules' keywords it contains.
RuleWords ==
  <<total_words, list_words, biggest_words, smallest_words, average_words,
    count_words>>

RuleShapes ==
  <<{TotalByCategory, TotalOverall}, {ListExpenses},
    {BiggestCategory, BiggestExpenses}, {SmallestCategory, SmallestExpenses},
    {AverageByCategory, AverageOverall}, {CountByCategory, CountOverall},
    {RecentDefault}>>

MatchedRules(text) == {i \in 1..Len(RuleWords) : any(RuleWords[i], text)}

FirstRule(text) ==
  IF MatchedRules(text) = {} THEN Len(RuleShapes)
  ELSE CHOOSE i \in MatchedRules(text) : \A k \in MatchedRules(text) : i <= k

C2_FirstMatchWins ==
  translated =>
    /\ interpretation \in RuleShapes[FirstRule(ql)]
    /\ \A i \in MatchedRules(ql) : i > FirstRule(ql) =>
         interpretation \notin RuleShapes[i]
    /\ 1 \in MatchedRules(ql) =>
         interpretation =
           IF contains(ql, by_category_words[1]) \/ contains(ql, by_category_words[2])
             THEN TotalByCategory ELSE TotalOverall

C2_Witness ==
  /\ translated
  /\ MatchedRules(ql) = {1, 3}
  /\ interpretation = TotalOverall
----------------------------------------------------------------------------
\* str.replace(old, new): every occurrence, left to right, without overlap
RECURSIVE replace(_, _, _)
replace(text, old, new) ==
  IF Len(text) < Len(old) \/ old = <<>> THEN text
  ELSE IF startswith(text, old)
         THEN new \o replace(SubSeq(text, Len(old) + 1, Len(text)), old, new)
  ELSE <<Head(text)>> \o replace(Tail(text), old, new)

\* The question with "total" replaced by "average", and what it translates to
swapped == replace(question, total_words[1], average_words[1])

swapped_result == generate_sql_from_question(swapped, start_date, end_date)

avg_amount == <<"A", "V", "G", "(", "a", "m", "o", "u", "n", "t", ")">>

\* C3 (as claimed): for every question that contains "total" and "category",
\* replacing "total" with "average" gives a question classified
\* AverageByCategory (AVG(amount) grouped by category).
C3_SwapGivesAverageByCategory ==
  (translated /\ contains(question, total_words[1]) /\ contains(question, category_word))
    => /\ swapped_result.interpretation = AverageByCategory
       /\ contains(swapped_result.sql, avg_amount)
       /\ contains(swapped_result.sql, group_by_category)

\* C3 (amended): the new question is classified AverageByCategory provided it
\* contains no keyword of rules 1 to 4; when it contains one, it is given a
\* shape of the first of those rules instead.
C3_SwapGivesAverageUnlessShadowed ==
  (translated /\ contains(question, total_words[1]) /\ contains(question, category_word))
    => IF MatchedRules(lower(swapped)) \cap 1..4 = {}
         THEN /\ swapped_result.interpretation = AverageByCategory
              /\ contains(swapped_result.sql, avg_amount)
              /\ contains(swapped_result.sql, group_by_category)
         ELSE /\ swapped_result.interpretation \in RuleShapes[FirstRule(lower(swapped))]
              /\ swapped_result.interpretation # AverageByCategory

C3_Witness ==
  /\ translated
  /\ contains(question, total_words[1]) /\ contains(question, category_word)
  /\ MatchedRules(lower(swapped)) = {5}
  /\ interpretation = TotalByCategory
  /\ swapped_result.interpretation = AverageByCategory

----------------------------------------------------------------------------
\* Where word first occurs in text (0 when it does not)
position(text, word) ==
  IF ~contains(text, word) THEN 0
  ELSE CHOOSE i \in 1..(Len(text) - Len(word) + 1) :
         /\ \A j \in 1..Len(word) : text[i + j - 1] = word[j]
         /\ \A k \in 1..(i - 1) : \E j \in 1..Len(word) : text[k + j - 1] # word[j]

\* The text that follows the first amount cue of the question
after_cue(text) ==
  LET cues == {n \in 1..Len(amount_words) : contains(text, amount_words[n])}
      first == CHOOSE n \in cues : \A k \in cues :
                 position(text, amount_words[n]) <= position(text, amount_words[k])
  IN  SubSeq(text, position(text, amount_words[first]) + Len(amount_words[first]),
             Len(text))

\* C4 (as claimed): in a ListExpenses question with an amount cue, the
\* threshold of "amount > N" is the first integer literal that follows the
\* cue, not an integer that occurs before the cue.
C4_ThresholdFollowsCue ==
  (/\ translated
   /\ interpretation = ListExpenses
   /\ any(amount_words, ql)
   /\ re_search_amount(after_cue(ql)) # None)
    => contains(sql_query,
                <<" ">> \o amount_condition(re_search_amount(after_cue(ql))) \o <<"\n">>)

----------------------------------------------------------------------------
mentioned == {n \in 1..Len(categories) : contains(ql, categories[n])}

\* The mentioned category that comes first in the question text
first_in_text ==
  categories[CHOOSE n \in mentioned : \A k \in mentioned :
               position(ql, categories[n]) <= position(ql, categories[k])]

\* The mentioned category that comes first in the list food, travel,
\* shopping, bills, other
first_in_list == categories[CHOOSE n \in mentioned : \A k \in mentioned : n <= k]

ilike == <<"I", "L", "I", "K", "E">>

\* C5 (as claimed): when a TotalOverall or ListExpenses question mentions
\* more than one known category, the one category predicate rendered uses
\* the category mentioned first in the question text.
C5_FirstMentionedCategory ==
  (/\ translated
   /\ interpretation \in {TotalOverall, ListExpenses}
   /\ Cardinality(mentioned) > 1)
    => /\ contains(sql_query, cat_condition(first_in_text))
       /\ count(sql_query, ilike) = 1

\* C5 (amended): the one category predicate rendered uses the mentioned
\* category that comes first in the fixed order food, travel, shopping,
\* bills, other, wherever in the question the categories are mentioned.
C5_FirstListedCategory ==
  (/\ translated
   /\ interpretation \in {TotalOverall, ListExpenses}
   /\ Cardinality(mentioned) > 1)
    => /\ contains(sql_query, cat_condition(first_in_list))
       /\ count(sql_query, ilike) = 1

C5_Witness ==
  /\ translated
  /\ interpretation = ListExpenses
  /\ Cardinality(mentioned) > 1
  /\ first_in_text # first_in_list
  /\ contains(sql_query, cat_condition(first_in_list))
----------------------------------------------------------------------------
\* The filters present in the request, each with its predicate
date_present == truthy(start_date) \/ truthy(end_date)

category_present == mentioned # {}

amount_present ==
  /\ interpretation = ListExpenses
  /\ any(amount_words, ql)
  /\ re_search_amount(ql) # None

date_predicate ==
  SubSeq(date_filter(start_date, end_date), Len(where_) + 1,
         Len(date_filter(start_date, end_date)))

predicates ==
  (IF date_present THEN <<date_predicate>> ELSE <<>>)
    \o (IF category_present THEN <<cat_condition(first_in_list)>> ELSE <<>>)
    \o (IF amount_present THEN <<amount_condition(re_search_amount(ql))>> ELSE <<>>)

RECURSIVE join(_, _)
join(items, sep) ==
  IF Len(items) <= 1 THEN concat(items)
  ELSE Head(items) \o sep \o join(Tail(items), sep)

\* The one line the filters make: nothing, or WHERE p1 AND p2 ...
where_clause == IF predicates = <<>> THEN <<>> ELSE where_ \o join(predicates, and_)

where_keyword == <<"W", "H", "E", "R", "E">>

\* C6: a ListExpenses or TotalOverall statement contains the predicates of
\* exactly the filters present, in the order date range, category, amount,
\* joined by AND after a single WHERE; with no filter present it has no WHERE
\* (and no AND, no predicate) at all.
C6_FiltersConjoinedInOrder ==
  (translated /\ interpretation \in {ListExpenses, TotalOverall})
    => /\ count(sql_query, where_keyword) = IF predicates = <<>> THEN 0 ELSE 1
       /\ count(sql_query, and_) = count(where_clause, and_)
       /\ count(sql_query, ilike) = IF category_present THEN 1 ELSE 0
       /\ count(sql_query, amount_gt) = IF amount_present THEN 1 ELSE 0
       /\ predicates # <<>> =>
            contains(sql_query \o <<"\n">>, <<" ">> \o where_clause \o <<"\n">>)

C6_Witness ==
  /\ translated
  /\ interpretation = ListExpenses
  /\ truthy(start_date) /\ truthy(end_date)
  /\ Len(predicates) = 3
  /\ count(sql_query, and_) = 3

----------------------------------------------------------------------------
\* The text after LIMIT, None when the statement has no LIMIT
row_cap(sql) ==
  IF ~contains(sql, limit_keyword) THEN None
  ELSE SubSeq(sql, position(sql, limit_keyword) + Len(limit_keyword) + 1, Len(sql))

cap_of(shape) ==
  CASE shape = ListExpenses -> <<"1", "0", "0">>
    [] shape \in {BiggestExpenses, SmallestExpenses} -> <<"1", "0">>
    [] shape \in {BiggestCategory, SmallestCategory} -> <<"1">>
    [] shape = RecentDefault -> <<"5", "0">>

\* C7: the row cap is fixed by the shape alone: LIMIT 100 for ListExpenses,
\* 10 for BiggestExpenses and SmallestExpenses, 1 for BiggestCategory and
\* SmallestCategory, 50 for RecentDefault, whatever the question and dates.
C7_RowCapByShape ==
  (translated /\ interpretation \in CappedShapes)
    => /\ count(sql_query, limit_keyword) = 1
       /\ row_cap(sql_query) = cap_of(interpretation)

C7_Witness ==
  /\ translated
  /\ interpretation = SmallestCategory
  /\ truthy(start_date)
  /\ row_cap(sql_query) = <<"1">>

----------------------------------------------------------------------------
\* C8: generate_sql_from_question is total: every request, the empty
\* question included, is answered with a statement and an interpretation;
\* a question with no keyword of rules 1 to 6 yields RecentDefault (ORDER BY
\* date DESC, LIMIT 50) with no category and no amount predicate.
C8_TotalWithRecentDefault ==
  translated =>
    /\ sql_query # None /\ sql_query # <<>>
    /\ interpretation \in CappedShapes \cup AggregateShapes
    /\ MatchedRules(ql) = {} =>
         /\ interpretation = RecentDefault
         /\ contains(sql_query, order_by_date_desc \o <<"\n">>)
         /\ row_cap(sql_query) = <<"5", "0">>
         /\ ~contains(sql_query, ilike)
         /\ ~contains(sql_query, amount_gt)

C8_Witness ==
  /\ translated
  /\ question = <<>>
  /\ interpretation = RecentDefault
  /\ row_cap(sql_query) = <<"5", "0">>

----------------------------------------------------------------------------
\* A ListExpenses question with the same category filter and no amount cue
plain_question ==
  IF mentioned = {} THEN list_words[1] ELSE list_words[1] \o <<" ">> \o first_in_list

\* C9: a ListExpenses question with an amount cue and no integer literal
\* renders no amount predicate: its statement is the one rendered for the
\* same date range and category filter without any amount filter.
C9_CueWithoutNumber ==
  (/\ translated
   /\ interpretation = ListExpenses
   /\ any(amount_words, ql)
   /\ re_search_amount(ql) = None)
    => /\ ~contains(sql_query, amount_gt)
       /\ sql_query = generate_sql_from_question(plain_question, start_date, end_date).sql

C9_Witness ==
  /\ translated
  /\ interpretation = ListExpenses
  /\ any(amount_words, ql)
  /\ re_search_amount(ql) = None
  /\ mentioned # {}
  /\ truthy(start_date)

----------------------------------------------------------------------------
\* C10: the validator applies read-only, blocked-keyword, limit, in this
\* order, to the upper-cased trimmed statement and reports the first check
\* that fails; it passes a statement only when all three checks hold.
C10_FirstFailingCheck ==
  pc = "validated" =>
    LET text == upper(strip(statement))
        read == startswith(text, select_keyword)
        blocked == \E n \in 1..Len(blocked_keywords) : count(text, blocked_keywords[n]) > 0
        limited == count(text, limit_keyword) > 0
    IN  /\ ~read => verdict = "not-a-read-statement"
        /\ (read /\ blocked) => verdict = "contains-blocked-keyword"
        /\ (read /\ ~blocked /\ ~limited) => verdict = "missing-limit-clause"
        /\ verdict = "pass" <=> (read /\ ~blocked /\ limited)

C10_Witness ==
  /\ pc = "validated"
  /\ verdict = "contains-blocked-keyword"
  /\ startswith(statement, lower(select_keyword))
  /\ ~contains(upper(statement), limit_keyword)
----------------------------------------------------------------------------
\* word stands in text as a word of its own, between spaces or the ends
occurs_as_word(text, word) ==
  \E i \in 1..(Len(text) - Len(word) + 1) :
    /\ \A j \in 1..Len(word) : text[i + j - 1] = word[j]
    /\ (i = 1 \/ text[i - 1] = " ")
    /\ (i + Len(word) - 1 = Len(text) \/ text[i + Len(word)] = " ")

any_word(keywords, text) == \E n \in 1..Len(keywords) : occurs_as_word(text, keywords[n])

asc_keyword == <<" ", "A", "S", "C", "\n">>

\* C11: every keyword of rule 4 can select rule 4: a question that contains
\* "smallest", "lowest", "minimum" or "least" and none of the words listed
\* for rules 1 to 3 is SmallestCategory when it contains "category" and
\* SmallestExpenses otherwise (ascending order, LIMIT 1 or LIMIT 10), never
\* ListExpenses.
C11_SmallestWordsSelectRule4 ==
  (/\ translated
   /\ any_word(smallest_words, ql)
   /\ \A i \in 1..3 : ~any_word(RuleWords[i], ql))
    => /\ interpretation =
            IF contains(ql, category_word) THEN SmallestCategory ELSE SmallestExpenses
       /\ interpretation # ListExpenses
       /\ contains(sql_query, asc_keyword)
       /\ row_cap(sql_query) = cap_of(interpretation)
----------------------------------------------------------------------------
\* C12: when executing the generated statement fails in the datastore, the
\* /query endpoint answers with a server error (5xx), never a client error
\* (4xx), with one HTTP error and no partial result.
C12_DatastoreFailureIsServerError ==
  (pc = "responded" /\ db_outcome = "psycopg2.Error")
    => /\ http_status \in 500..599
       /\ http_status \notin 400..499
       /\ results = "none"
----------------------------------------------------------------------------
\* A question of the shape that mentions no category and no amount cue
bare_question(shape) ==
  CASE shape = TotalByCategory -> total_words[1] \o <<" ">> \o category_word
    [] shape = BiggestCategory -> biggest_words[1] \o <<" ">> \o category_word
    [] shape = BiggestExpenses -> biggest_words[1]
    [] shape = SmallestCategory -> smallest_words[2] \o <<" ">> \o category_word
    [] shape = SmallestExpenses -> smallest_words[2]
    [] shape = AverageByCategory -> average_words[1] \o <<" ">> \o category_word
    [] shape = AverageOverall -> average_words[1]
    [] shape = CountByCategory -> count_words[1] \o <<" ">> \o category_word
    [] shape = CountOverall -> count_words[1]
    [] shape = RecentDefault -> <<>>

bare_result ==
  generate_sql_from_question(bare_question(interpretation), start_date, end_date)

\* C13: category and amount filters are applied only in TotalOverall
\* (category only) and ListExpenses: in every other shape the statement
\* depends on the shape and the date range alone, so it is the statement of
\* any other question of that shape with the same dates, even when the
\* question mentions a known category or an amount cue with a number; and
\* TotalOverall never renders an amount predicate.
C13_FiltersOnlyInTotalOverallAndList ==
  /\ (translated /\ interpretation \notin {TotalOverall, ListExpenses})
       => /\ bare_result.interpretation = interpretation
          /\ sql_query = bare_result.sql
          /\ ~contains(sql_query, ilike)
          /\ ~contains(sql_query, amount_gt)
  /\ (translated /\ interpretation = TotalOverall)
       => ~contains(sql_query, amount_gt)

C13_Witness ==
  /\ translated
  /\ interpretation = CountOverall
  /\ mentioned # {}
  /\ question # bare_question(interpretation)
  /\ truthy(start_date)
  /\ sql_query = bare_result.sql

====
